---- MODULE Spec2Model ----
(***************************************************************************)
(* Model of src/api/src/functions/assistant.js: the async generator        *)
(* processQuery, the delegated generators handleRequiresAction and          *)
(* submitToolOutputs, and the simulated getStockPrice lookup.               *)
(*                                                                          *)
(* One request is one asynchronous task.  The assistant client and the two  *)
(* event streams are the environment: every await of the code is a point    *)
(* where the environment answers (a value, the next chunk, the end of the   *)
(* stream, or a rejection).  Spec is one request on its own; ConcSpec is    *)
(* two requests that the event loop of the host interleaves at their        *)
(* awaits.                                                                  *)
(***************************************************************************)
EXTENDS Integers, Sequences, FiniteSets, TLC

(* ---------------------------------------------------------------------- *)
(* Bounds of the model                                                      *)
(* ---------------------------------------------------------------------- *)
\* what the service sends in the course of one request before its streams
\* must end or fail: the chunks of the run stream and of the resumed streams
\* and the tool calls the requires-action chunks carry, counted together
MaxLoad == 5

\* the same, for two concurrent requests together
MaxConcLoad == 3

(* ---------------------------------------------------------------------- *)
(* JavaScript values                                                        *)
(* ---------------------------------------------------------------------- *)
\* an absent (undefined) property is the empty tuple, a present one <<v>>
None == <<>>
Some(v) == <<v>>
IsSome(o) == o # <<>>
Get(o) == o[1]

\* a content block of a message delta: { text: { value } }, each level optional
Block(textOpt) == [text |-> textOpt]
TextOf(valueOpt) == [value |-> valueOpt]
TextBlock(s) == Block(Some(TextOf(Some(s))))

\* chunk { event: "thread.message.delta", data: { delta } }
DeltaChunk(deltaOpt) ==
  [event |-> "thread.message.delta", data |-> [delta |-> deltaOpt]]
\* data.delta = { content: [...] }; content itself may be undefined
DeltaOf(contentOpt) == Some([content |-> contentOpt])

\* the delta chunks the streams of the model deliver
TextChunk(s) == DeltaChunk(DeltaOf(Some(<<TextBlock(s)>>)))
TwoBlockChunk == DeltaChunk(DeltaOf(Some(<<TextBlock("a"), TextBlock("b")>>)))
EmptyContentChunk == DeltaChunk(DeltaOf(Some(<<>>)))
NoTextChunk == DeltaChunk(DeltaOf(Some(<<Block(None)>>)))
NoValueChunk == DeltaChunk(DeltaOf(Some(<<Block(Some(TextOf(None)))>>)))
NoDeltaChunk == DeltaChunk(None)
NoContentChunk == DeltaChunk(DeltaOf(None))
\* a chunk of a kind the code has no branch for
OtherChunk == [event |-> "thread.run.step.created", data |-> [id |-> "step_1"]]

(* ---------------------------------------------------------------------- *)
(* Tool calls                                                               *)
(* ---------------------------------------------------------------------- *)
CallIds == <<"call_1", "call_2", "call_3", "call_4", "call_5", "call_6">>
ArgsAAPL == "{\"symbol\":\"AAPL\"}"
ArgsMalformed == "{\"symbol\":"
ArgsCity == "{\"city\":\"Paris\"}"
ToolFunctions ==
  { [name |-> "getStockPrice", arguments |-> ArgsAAPL],
    [name |-> "getStockPrice", arguments |-> ArgsMalformed],
    [name |-> "getWeather", arguments |-> ArgsCity] }

\* tool-call lists of n calls, the service having issued `issued` call ids
\* before: the call at position i has the next fresh id
ToolCallLists(issued, n) ==
  { [i \in 1..n |-> [id |-> CallIds[issued + i], type |-> "function",
                     function |-> f[i]]] :
      f \in [1..n -> ToolFunctions] }

\* the (run id, thread id) pairs a requires-action event may carry
RunRefs ==
  { [id |-> "run_1", thread_id |-> "thread_1"],
    [id |-> "run_2", thread_id |-> "thread_2"] }

RequiresActionChunk(ref, calls) ==
  [event |-> "thread.run.requires_action",
   data |-> [id |-> ref.id, thread_id |-> ref.thread_id,
             required_action |->
               [submit_tool_outputs |-> [tool_calls |-> calls]]]]

\* the requires-action chunks the service may send after `issued` tool
\* calls, with at most `most` tool calls
RequiresActionChunks(issued, most) ==
  { RequiresActionChunk(ref, calls) :
      ref \in RunRefs,
      calls \in UNION { ToolCallLists(issued, n) : n \in 1..most } }

\* the strings "" + Math.random(10) * 1000 may evaluate to
PriceStrings == { "17.5", "902.25" }

(* ---------------------------------------------------------------------- *)
(* Pure parts of the code                                                   *)
(* ---------------------------------------------------------------------- *)
\* delta.content[0]: a TypeError when content is undefined
ExtractThrows(delta) == ~IsSome(delta.content)

\* delta.content[0]?.text?.value || ""
ExtractValue(delta) ==
  LET content == Get(delta.content) IN
    IF Len(content) = 0 THEN ""
    ELSE LET block == content[1] IN
      IF ~IsSome(block.text) THEN ""
      ELSE IF ~IsSome(Get(block.text).value) THEN ""
      ELSE Get(Get(block.text).value)

\* JSON.parse on the argument strings of the model: the parsed object (its
\* symbol property, possibly undefined) or a SyntaxError
JSONParse(s) ==
  IF s = ArgsAAPL THEN [ok |-> TRUE, symbol |-> Some("AAPL")]
  ELSE IF s = ArgsCity THEN [ok |-> TRUE, symbol |-> None]
  ELSE [ok |-> FALSE, symbol |-> None]

\* the branch of the for-await body of processQuery a chunk takes
OuterBranch(chunk) ==
  IF chunk.event = "thread.message.delta" THEN "delta"
  ELSE IF chunk.event = "thread.run.requires_action" THEN "requires_action"
  ELSE "ignored"

\* the branch of the for-await body of submitToolOutputs a chunk takes
ResumedBranch(chunk) ==
  IF chunk.event = "thread.message.delta" THEN "delta" ELSE "ignored"

\* (mutant) the callback does not look at the function name
ToolTaskStartAnyName(toolCall) ==
  LET parsed == JSONParse(toolCall.function.arguments) IN
    IF parsed.ok
    THEN [state |-> "pending", call |-> toolCall, value |-> None]
    ELSE [state |-> "rejected", call |-> toolCall, value |-> None]

\* (mutant) the callback swallows the SyntaxError of JSON.parse and returns
\* an output without a price
ToolTaskStartLenient(toolCall) ==
  IF toolCall.function.name = "getStockPrice"
  THEN LET parsed == JSONParse(toolCall.function.arguments) IN
         IF parsed.ok
         THEN [state |-> "pending", call |-> toolCall, value |-> None]
         ELSE [state |-> "fulfilled", call |-> toolCall,
               value |-> Some([tool_call_id |-> toolCall.id, output |-> "undefined"])]
  ELSE [state |-> "fulfilled", call |-> toolCall, value |-> Some(toolCall)]

\* the synchronous part of the map callback for one tool call: the promise
\* it leaves behind (pending on getStockPrice, fulfilled, or rejected)
ToolTaskStart(toolCall) ==
  IF toolCall.function.name = "getStockPrice"
  THEN LET parsed == JSONParse(toolCall.function.arguments) IN
         IF parsed.ok
         THEN [state |-> "pending", call |-> toolCall, value |-> None]
         ELSE [state |-> "rejected", call |-> toolCall, value |-> None]
  ELSE [state |-> "fulfilled", call |-> toolCall, value |-> Some(toolCall)]

\* the arguments getStockPrice is invoked with while the callbacks start
LookupArgs(toolCalls) ==
  LET Step(i) == IF ToolTaskStart(toolCalls[i]).state = "pending"
                 THEN <<[id |-> toolCalls[i].id,
                         symbol |-> JSONParse(toolCalls[i].function.arguments).symbol]>>
                 ELSE <<>>
      RECURSIVE Collect(_)
      Collect(i) == IF i > Len(toolCalls) THEN <<>> ELSE Step(i) \o Collect(i + 1)
  IN Collect(1)

\* the object the callback returns once getStockPrice has answered
ToolOutput(toolCall, price) == [tool_call_id |-> toolCall.id, output |-> price]

\* Promise.all: fulfilled with the values in input order once all are
\* fulfilled, rejected as soon as one is rejected
AllFulfilled(ts) == \A i \in 1..Len(ts) : ts[i].state = "fulfilled"
AnyRejected(ts) == \E i \in 1..Len(ts) : ts[i].state = "rejected"
\* (mutant) the values are collected last call first
JoinedValuesReversed(ts) == [i \in 1..Len(ts) |-> Get(ts[Len(ts) + 1 - i].value)]

JoinedValues(ts) == [i \in 1..Len(ts) |-> Get(ts[i].value)]

\* (mutant) the two ids are passed in the order of the parameter list of
\* submitToolOutputs, not in the order of the client's signature
SubmitRequestSwapped(threadId, runId, outputs) ==
  [op |-> "submitToolOutputsStream", thread_id |-> runId, run_id |-> threadId,
   tool_outputs |-> outputs]

\* the request of openai.beta.threads.runs.submitToolOutputsStream
SubmitRequest(threadId, runId, outputs) ==
  [op |-> "submitToolOutputsStream", thread_id |-> threadId, run_id |-> runId,
   tool_outputs |-> outputs]

\* (mutant) the fragment is delivered ahead of the ones already yielded
YieldFront(fragments, value) == <<value>> \o fragments

\* yield value: the fragment is appended to what the consumer has received
Yield(fragments, value) == Append(fragments, value)

(* ---------------------------------------------------------------------- *)
(* State: the request that is running, and the host around it               *)
(* ---------------------------------------------------------------------- *)
VARIABLES
  self,        \* the request the event loop is running: the variables below
               \* (ASSISTANT_ID aside) are the locals of its generators
  suspended,   \* the locals of the requests that wait at an await
  threadsCreated, \* the threads the service has created so far
  pc,          \* where the request task is suspended
  ASSISTANT_ID,\* process.env.ASSISTANT_ID ("" when not configured)
  assistant,   \* the resolved assistant (its id), once step 1 has returned
  thread,      \* the created thread (its id), once step 2 has returned
  ops,         \* the client operations invoked so far, with their arguments
  outerLog,    \* the chunks the run stream has delivered so far
  out,         \* the fragments yielded to the consumer so far
  origin,      \* for each fragment of out: the stream and outer chunk it is from
  cur,         \* data of the requires-action chunk being handled
  dispatches,  \* one record per call of handleRequiresAction: the position
               \* in outerLog of its chunk, and the request it submitted
  tasks,       \* the promises of the map callbacks of the current dispatch
  lookups,     \* the getStockPrice invocations so far, in invocation order
  completions, \* the getStockPrice results so far, in completion order
  toolOutputs, \* the value Promise.all was fulfilled with
  resumedLog,  \* the chunks the resumed streams have delivered, each with the
               \* position in outerLog of the chunk that opened its stream
  errors,      \* the context.error calls so far
  failures,    \* the operations and streams that rejected so far
  outerEnded,  \* the run stream has signalled its end
  thrown       \* the error that reached the consumer, if any

vars == <<pc, ASSISTANT_ID, assistant, thread, ops, outerLog, out, origin, cur,
          dispatches, tasks, lookups, completions, toolOutputs, resumedLog,
          errors, failures, outerEnded, thrown, self, suspended,
          threadsCreated>>

setupVars == <<ASSISTANT_ID, assistant, thread>>
streamVars == <<outerLog, out, origin, outerEnded>>
dispatchVars == <<cur, dispatches, tasks, lookups, completions, toolOutputs,
                  resumedLog>>
hostVars == <<self, suspended, threadsCreated>>

\* the (run id, thread id) the events of the streams of the running request
\* carry: the service runs the request on the thread the request created
OwnRunRefs == { ref \in RunRefs : thread = Some(ref.thread_id) }

\* the chunks the run stream may deliver after `issued` tool calls, with at
\* most `most` tool calls
OuterChunks(issued, most) ==
  { TextChunk("a"), TextChunk("b"), NoTextChunk, NoDeltaChunk, NoContentChunk,
    OtherChunk } \cup
  { chunk \in RequiresActionChunks(issued, most) :
      [id |-> chunk.data.id, thread_id |-> chunk.data.thread_id] \in OwnRunRefs }

\* the chunks a resumed stream may deliver
ResumedChunks ==
  { TextChunk("c"), EmptyContentChunk, NoDeltaChunk, NoContentChunk } \cup
  { RequiresActionChunk(ref,
      <<[id |-> "call_r", type |-> "function",
         function |-> [name |-> "getStockPrice", arguments |-> ArgsAAPL]]>>) :
      ref \in OwnRunRefs }

\* the tool calls the delivered chunks of the run stream carry
RECURSIVE CallsIssued(_)
CallsIssued(log) ==
  IF log = <<>> THEN 0
  ELSE (IF log[Len(log)].event = "thread.run.requires_action"
        THEN Len(log[Len(log)].data.required_action.submit_tool_outputs.tool_calls)
        ELSE 0)
       + CallsIssued(SubSeq(log, 1, Len(log) - 1))

NewAssistantId == "asst_new"
\* the id of the thread the service creates next
ThreadIds == <<"thread_1", "thread_2">>
NewThreadId == ThreadIds[threadsCreated + 1]

\* the locals of a request that has not taken its first step
NewRequest(rid) ==
  [rid |-> rid, pc |-> "init", assistant |-> None, thread |-> None,
   ops |-> <<>>, outerLog |-> <<>>, out |-> <<>>, origin |-> <<>>,
   cur |-> None, dispatches |-> <<>>, tasks |-> <<>>, lookups |-> <<>>,
   completions |-> <<>>, toolOutputs |-> <<>>, resumedLog |-> <<>>,
   errors |-> <<>>, failures |-> <<>>, outerEnded |-> FALSE, thrown |-> None]

\* the running request has not taken its first step
RequestStarts ==
  /\ pc = "init"
  /\ assistant = None
  /\ thread = None
  /\ ops = <<>>
  /\ outerLog = <<>>
  /\ out = <<>>
  /\ origin = <<>>
  /\ cur = None
  /\ dispatches = <<>>
  /\ tasks = <<>>
  /\ lookups = <<>>
  /\ completions = <<>>
  /\ toolOutputs = <<>>
  /\ resumedLog = <<>>
  /\ errors = <<>>
  /\ failures = <<>>
  /\ outerEnded = FALSE
  /\ thrown = None

\* one request, nothing else on the host
Init ==
  /\ self = 1
  /\ suspended = <<>>
  /\ threadsCreated = 0
  /\ ASSISTANT_ID \in { "", "asst_fixed" }
  /\ RequestStarts

(* ---------------------------------------------------------------------- *)
(* processQuery, steps 0 to 4                                               *)
(* ---------------------------------------------------------------------- *)
\* (mutant) the error is swallowed and the generator returns normally
PropagateSwallowed(error) ==
  /\ pc' = "done"
  /\ thrown' = thrown

\* an awaited client operation rejected outside any try: the generator
\* throws to its consumer
Propagate(error) ==
  /\ pc' = "failed"
  /\ thrown' = Some(error)

\* (mutant) a rejected setup operation is attempted again
SetupStepRetry(ok, next, error) ==
  /\ pc' = (IF ok THEN next ELSE pc)
  /\ thrown' = thrown
  /\ failures' = IF ok THEN failures ELSE Append(failures, error)

\* (mutant) a rejected setup operation is swallowed and the next step follows
SetupStepSwallow(ok, next, error) ==
  /\ pc' = next
  /\ thrown' = thrown
  /\ failures' = IF ok THEN failures ELSE Append(failures, error)

\* an awaited setup operation returned (the next step follows) or rejected
\* (nothing catches it)
SetupStep(ok, next, error) ==
  IF ok THEN pc' = next /\ UNCHANGED <<thrown, failures>>
  ELSE Propagate(error) /\ failures' = Append(failures, error)

\* const openai = await initAzureOpenAI(context)
InitAzureOpenAI ==
  /\ pc = "init"
  /\ ops' = Append(ops, [op |-> "initAzureOpenAI"])
  /\ \E ok \in BOOLEAN : SetupStep(ok, "assistant", "initAzureOpenAI")
  /\ UNCHANGED <<hostVars, setupVars, streamVars, dispatchVars, errors>>

\* ASSISTANT_ID ? assistants.retrieve(ASSISTANT_ID) : assistants.create(def)
ResolveAssistant ==
  /\ pc = "assistant"
  /\ ops' = Append(ops,
       IF ASSISTANT_ID # ""
       THEN [op |-> "assistants.retrieve", id |-> ASSISTANT_ID]
       ELSE [op |-> "assistants.create", name |-> "Finance Assistant"])
  /\ \E ok \in BOOLEAN :
       /\ SetupStep(ok, "thread", "assistants")
       /\ assistant' = IF ~ok THEN assistant
                       ELSE IF ASSISTANT_ID # "" THEN Some(ASSISTANT_ID)
                       ELSE Some(NewAssistantId)
  /\ UNCHANGED <<hostVars, ASSISTANT_ID, thread, streamVars, dispatchVars, errors>>

\* const thread = await openai.beta.threads.create()
CreateThread ==
  /\ pc = "thread"
  /\ ops' = Append(ops, [op |-> "threads.create"])
  /\ \E ok \in BOOLEAN :
       /\ SetupStep(ok, "message", "threads.create")
       /\ thread' = IF ok THEN Some(NewThreadId) ELSE thread
       /\ threadsCreated' = IF ok THEN threadsCreated + 1 ELSE threadsCreated
  /\ UNCHANGED <<self, suspended, ASSISTANT_ID, assistant, streamVars,
                 dispatchVars, errors>>

\* await openai.beta.threads.messages.create(thread.id, { role, content })
CreateMessage ==
  /\ pc = "message"
  /\ ops' = Append(ops, [op |-> "messages.create", thread_id |-> Get(thread),
                         role |-> "user"])
  /\ \E ok \in BOOLEAN : SetupStep(ok, "run", "messages.create")
  /\ UNCHANGED <<hostVars, setupVars, streamVars, dispatchVars, errors>>

\* const run = openai.beta.threads.runs.stream(thread.id, { assistant_id })
StreamRun ==
  /\ pc = "run"
  /\ ops' = Append(ops, [op |-> "runs.stream", thread_id |-> Get(thread),
                         assistant_id |-> Get(assistant)])
  /\ \E ok \in BOOLEAN : SetupStep(ok, "stream", "runs.stream")
  /\ UNCHANGED <<hostVars, setupVars, streamVars, dispatchVars, errors>>

(* ---------------------------------------------------------------------- *)
(* processQuery, step 5: for await (const chunk of run)                     *)
(* ---------------------------------------------------------------------- *)
\* (mutant) the run stream is also advanced while a resumed stream is drained
AtLoopHeadOrDraining == pc \in { "stream", "resumed" }

\* processQuery asks the run stream for its next chunk only at the head of
\* its for-await loop; yield* keeps it inside the delegated generator
AtLoopHead == pc = "stream"

\* what the service has sent so far: to the running request and to the
\* suspended ones
RECURSIVE SuspendedLoad(_)
SuspendedLoad(frames) ==
  IF frames = <<>> THEN 0
  ELSE Len(frames[1].outerLog) + Len(frames[1].resumedLog)
       + CallsIssued(frames[1].outerLog) + SuspendedLoad(Tail(frames))

Load ==
  Len(outerLog) + Len(resumedLog) + CallsIssued(outerLog)
  + SuspendedLoad(suspended)

\* the bound that applies: that of one request or of concurrent requests
LoadBound == IF suspended = <<>> THEN MaxLoad ELSE MaxConcLoad

\* what the run stream may deliver next
OuterDeliverable ==
  IF Load < LoadBound
  THEN OuterChunks(CallsIssued(outerLog), LoadBound - Load - 1)
  ELSE {}

\* a delta chunk with a delta payload: yield the extracted value
OuterDelta ==
  /\ AtLoopHead
  /\ \E chunk \in OuterDeliverable :
       /\ OuterBranch(chunk) = "delta"
       /\ IsSome(chunk.data.delta)
       /\ ~ExtractThrows(Get(chunk.data.delta))
       /\ outerLog' = Append(outerLog, chunk)
       /\ out' = Yield(out, ExtractValue(Get(chunk.data.delta)))
       /\ origin' = Append(origin, [stream |-> "outer", at |-> Len(outerLog) + 1])
  /\ UNCHANGED <<hostVars, pc, setupVars, ops, outerEnded, dispatchVars, errors, failures,
                 thrown>>

\* a delta chunk whose content is undefined: delta.content[0] throws, and
\* nothing in processQuery catches it
OuterDeltaThrows ==
  /\ AtLoopHead
  /\ \E chunk \in OuterDeliverable :
       /\ OuterBranch(chunk) = "delta"
       /\ IsSome(chunk.data.delta)
       /\ ExtractThrows(Get(chunk.data.delta))
       /\ outerLog' = Append(outerLog, chunk)
  /\ Propagate("TypeError")
  /\ UNCHANGED <<hostVars, setupVars, ops, out, origin, outerEnded, dispatchVars, errors,
                 failures>>

\* a delta chunk without delta payload, or a chunk of any other kind
OuterIgnored ==
  /\ AtLoopHead
  /\ \E chunk \in OuterDeliverable :
       /\ \/ OuterBranch(chunk) = "ignored"
          \/ OuterBranch(chunk) = "delta" /\ ~IsSome(chunk.data.delta)
       /\ outerLog' = Append(outerLog, chunk)
  /\ UNCHANGED <<hostVars, pc, setupVars, ops, out, origin, outerEnded, dispatchVars,
                 errors, failures, thrown>>

\* a requires-action chunk: processQuery is about to delegate
OuterRequiresAction ==
  /\ AtLoopHead
  /\ \E chunk \in OuterDeliverable :
       /\ OuterBranch(chunk) = "requires_action"
       /\ outerLog' = Append(outerLog, chunk)
       /\ cur' = Some(chunk.data)
  /\ pc' = "requires_action"
  /\ UNCHANGED <<hostVars, setupVars, ops, out, origin, outerEnded, dispatches, tasks,
                 lookups, completions, toolOutputs, resumedLog, errors,
                 failures, thrown>>

\* the run stream ends: the loop is left, 'Done!' is logged, the generator
\* returns
PcAfterOuterEnd == "done"

OuterEnd ==
  /\ AtLoopHead
  /\ pc' = PcAfterOuterEnd
  /\ outerEnded' = TRUE
  /\ UNCHANGED <<hostVars, setupVars, ops, outerLog, out, origin, dispatchVars, errors,
                 failures, thrown>>

\* the run stream rejects while processQuery waits for the next chunk
OuterThrows ==
  /\ AtLoopHead
  /\ Propagate("run stream")
  /\ failures' = Append(failures, "run stream")
  /\ UNCHANGED <<hostVars, setupVars, ops, streamVars, dispatchVars, errors>>

(* ---------------------------------------------------------------------- *)
(* handleRequiresAction                                                     *)
(* ---------------------------------------------------------------------- *)
ToolCallsOf(data) == data.required_action.submit_tool_outputs.tool_calls

\* (mutant) a caught dispatch failure ends the whole produced sequence
PcDoneAfterDispatchError == "done"

\* where the request continues once handleRequiresAction has returned after
\* one of the two catch blocks ran: the for-await loop of processQuery
PcAfterDispatchError == "stream"

\* (mutant) the chunk that started the dispatch is dispatched again
PcRedispatchAfterResumedEnd == "requires_action"

\* (mutant) the delegated generator never returns
PcStuckAfterResumedEnd == "awaiting"

\* where the request continues once the resumed stream has ended and both
\* delegated generators have returned: the for-await loop of processQuery
PcAfterResumedEnd == "stream"

\* the position in outerLog of the chunk the current dispatch handles
CurrentAt == dispatches[Len(dispatches)].at

\* context.error(message, error), called from a catch block
LogError(message) ==
  errors' = Append(errors,
    [message |-> message, at |-> CurrentAt, fragments |-> Len(out)])

\* yield* handleRequiresAction(...): tool_calls.map(async ...) runs every
\* callback up to its first await (JSON.parse and the call of getStockPrice
\* included), then the generator awaits Promise.all
HandleRequiresAction ==
  /\ pc = "requires_action"
  /\ LET toolCalls == ToolCallsOf(Get(cur)) IN
       /\ tasks' = [i \in 1..Len(toolCalls) |-> ToolTaskStart(toolCalls[i])]
       /\ lookups' = lookups \o LookupArgs(toolCalls)
  /\ dispatches' = Append(dispatches, [at |-> Len(outerLog), submitted |-> None])
  /\ toolOutputs' = <<>>
  /\ pc' = "tools"
  /\ UNCHANGED <<hostVars, setupVars, ops, streamVars, cur, completions, resumedLog,
                 errors, failures, thrown>>

\* getStockPrice answers for one pending callback, which then returns its
\* tool output; the callbacks complete in any order
StockPriceReturns ==
  /\ pc = "tools"
  /\ \E i \in 1..Len(tasks), price \in PriceStrings :
       /\ tasks[i].state = "pending"
       /\ tasks' = [tasks EXCEPT ![i] =
                      [state |-> "fulfilled", call |-> tasks[i].call,
                       value |-> Some(ToolOutput(tasks[i].call, price))]]
       /\ completions' = Append(completions,
                            [id |-> tasks[i].call.id, result |-> price])
  /\ UNCHANGED <<hostVars, pc, setupVars, ops, streamVars, cur, dispatches, lookups,
                 toolOutputs, resumedLog, errors, failures, thrown>>

\* Promise.all is fulfilled: toolOutputs is bound and submitToolOutputs starts
PromiseAllFulfilled ==
  /\ pc = "tools"
  /\ AllFulfilled(tasks)
  /\ toolOutputs' = JoinedValues(tasks)
  /\ pc' = "submit"
  /\ UNCHANGED <<hostVars, setupVars, ops, streamVars, cur, dispatches, tasks, lookups,
                 completions, resumedLog, errors, failures, thrown>>

\* Promise.all is rejected (a callback threw on JSON.parse): the catch of
\* handleRequiresAction logs the error and the generator returns
PromiseAllRejected ==
  /\ pc = "tools"
  /\ AnyRejected(tasks)
  /\ LogError("Error processing required action:")
  /\ pc' = PcAfterDispatchError
  /\ UNCHANGED <<hostVars, setupVars, ops, streamVars, dispatchVars, failures, thrown>>

(* ---------------------------------------------------------------------- *)
(* submitToolOutputs                                                        *)
(* ---------------------------------------------------------------------- *)
\* (mutant) the catch of submitToolOutputs logs the error and throws it again
SubmitCatchRethrows ==
  /\ LogError("Error submitting tool outputs:")
  /\ pc' = "failed"

\* the catch of submitToolOutputs: log, return; handleRequiresAction then
\* returns as well
SubmitCatch ==
  /\ LogError("Error submitting tool outputs:")
  /\ pc' = PcAfterDispatchError

\* the call of submitToolOutputsStream with the ids handleRequiresAction got
SubmitCall ==
  LET request == SubmitRequest(Get(cur).thread_id, Get(cur).id, toolOutputs) IN
    /\ ops' = Append(ops, request)
    /\ dispatches' = [dispatches EXCEPT ![Len(dispatches)].submitted = Some(request)]

\* openai.beta.threads.runs.submitToolOutputsStream(threadId, runId, ...)
SubmitToolOutputs ==
  /\ pc = "submit"
  /\ SubmitCall
  /\ pc' = "resumed"
  /\ UNCHANGED <<hostVars, setupVars, streamVars, cur, tasks, lookups, completions,
                 toolOutputs, resumedLog, errors, failures, thrown>>

\* the same call, rejected by the service
SubmitToolOutputsThrows ==
  /\ pc = "submit"
  /\ SubmitCall
  /\ failures' = Append(failures, "submitToolOutputsStream")
  /\ SubmitCatch
  /\ UNCHANGED <<hostVars, setupVars, streamVars, cur, tasks, lookups, completions,
                 toolOutputs, resumedLog, thrown>>

\* what the resumed stream may deliver next
ResumedDeliverable ==
  IF Load < LoadBound THEN ResumedChunks ELSE {}

\* the chunk is recorded with the position of the chunk that opened the stream
ResumedReceive(chunk) ==
  resumedLog' = Append(resumedLog, [at |-> CurrentAt, chunk |-> chunk])

\* a delta chunk with a delta payload on the resumed stream
ResumedDelta ==
  /\ pc = "resumed"
  /\ \E chunk \in ResumedDeliverable :
       /\ ResumedBranch(chunk) = "delta"
       /\ IsSome(chunk.data.delta)
       /\ ~ExtractThrows(Get(chunk.data.delta))
       /\ ResumedReceive(chunk)
       /\ out' = Yield(out, ExtractValue(Get(chunk.data.delta)))
       /\ origin' = Append(origin, [stream |-> "resumed", at |-> CurrentAt])
  /\ UNCHANGED <<hostVars, pc, setupVars, ops, outerLog, outerEnded, cur, dispatches,
                 tasks, lookups, completions, toolOutputs, errors, failures,
                 thrown>>

\* delta.content[0] throws on the resumed stream: caught by submitToolOutputs
ResumedDeltaThrows ==
  /\ pc = "resumed"
  /\ \E chunk \in ResumedDeliverable :
       /\ ResumedBranch(chunk) = "delta"
       /\ IsSome(chunk.data.delta)
       /\ ExtractThrows(Get(chunk.data.delta))
       /\ ResumedReceive(chunk)
  /\ SubmitCatch
  /\ UNCHANGED <<hostVars, setupVars, ops, streamVars, cur, dispatches, tasks, lookups,
                 completions, toolOutputs, failures, thrown>>

\* (mutant) a requires-action chunk of the resumed stream is handled as one of
\* the run stream is: a nested dispatch starts for it
ResumedIgnoredNested ==
  /\ pc = "resumed"
  /\ \E chunk \in ResumedDeliverable :
       /\ \/ ResumedBranch(chunk) = "ignored"
          \/ ResumedBranch(chunk) = "delta" /\ ~IsSome(chunk.data.delta)
       /\ ResumedReceive(chunk)
       /\ IF chunk.event = "thread.run.requires_action"
          THEN pc' = "requires_action" /\ cur' = Some(chunk.data)
          ELSE UNCHANGED <<pc, cur>>
  /\ UNCHANGED <<hostVars, setupVars, ops, streamVars, dispatches, tasks, lookups,
                 completions, toolOutputs, errors, failures, thrown>>

\* any other chunk on the resumed stream, a requires-action chunk included
ResumedIgnored ==
  /\ pc = "resumed"
  /\ \E chunk \in ResumedDeliverable :
       /\ \/ ResumedBranch(chunk) = "ignored"
          \/ ResumedBranch(chunk) = "delta" /\ ~IsSome(chunk.data.delta)
       /\ ResumedReceive(chunk)
  /\ UNCHANGED <<hostVars, pc, setupVars, ops, streamVars, cur, dispatches, tasks,
                 lookups, completions, toolOutputs, errors, failures, thrown>>

\* the resumed stream ends: both delegated generators return
ResumedEnd ==
  /\ pc = "resumed"
  /\ pc' = PcAfterResumedEnd
  /\ UNCHANGED <<hostVars, setupVars, ops, streamVars, dispatchVars, errors, failures,
                 thrown>>

\* the resumed stream rejects: caught by submitToolOutputs
ResumedThrows ==
  /\ pc = "resumed"
  /\ failures' = Append(failures, "resumed stream")
  /\ SubmitCatch
  /\ UNCHANGED <<hostVars, setupVars, ops, streamVars, dispatchVars, thrown>>

(* ---------------------------------------------------------------------- *)
(* The request                                                              *)
(* ---------------------------------------------------------------------- *)
Next ==
  \/ InitAzureOpenAI
  \/ ResolveAssistant
  \/ CreateThread
  \/ CreateMessage
  \/ StreamRun
  \/ OuterDelta
  \/ OuterDeltaThrows
  \/ OuterIgnored
  \/ OuterRequiresAction
  \/ OuterEnd
  \/ OuterThrows
  \/ HandleRequiresAction
  \/ StockPriceReturns
  \/ PromiseAllFulfilled
  \/ PromiseAllRejected
  \/ SubmitToolOutputs
  \/ SubmitToolOutputsThrows
  \/ ResumedDelta
  \/ ResumedDeltaThrows
  \/ ResumedIgnored
  \/ ResumedEnd
  \/ ResumedThrows

Spec == Init /\ [][Next]_vars

\* the request task is scheduled as long as it can take a step
FairSpec == Spec /\ WF_vars(Next)

(* ---------------------------------------------------------------------- *)
(* Concurrent requests                                                      *)
(* ---------------------------------------------------------------------- *)
\* the locals of the running request, as they are kept while it waits
Frame ==
  [rid |-> self, pc |-> pc, assistant |-> assistant, thread |-> thread,
   ops |-> ops, outerLog |-> outerLog, out |-> out, origin |-> origin,
   cur |-> cur, dispatches |-> dispatches, tasks |-> tasks,
   lookups |-> lookups, completions |-> completions,
   toolOutputs |-> toolOutputs, resumedLog |-> resumedLog, errors |-> errors,
   failures |-> failures, outerEnded |-> outerEnded, thrown |-> thrown]

\* (mutant) the data of the requires-action chunk being handled is kept in a
\* variable of the module, which the requests share
ResumeSharingCur(f) ==
  /\ self' = f.rid
  /\ pc' = f.pc
  /\ assistant' = f.assistant
  /\ thread' = f.thread
  /\ ops' = f.ops
  /\ outerLog' = f.outerLog
  /\ out' = f.out
  /\ origin' = f.origin
  /\ cur' = cur
  /\ dispatches' = f.dispatches
  /\ tasks' = f.tasks
  /\ lookups' = f.lookups
  /\ completions' = f.completions
  /\ toolOutputs' = f.toolOutputs
  /\ resumedLog' = f.resumedLog
  /\ errors' = f.errors
  /\ failures' = f.failures
  /\ outerEnded' = f.outerEnded
  /\ thrown' = f.thrown

\* a waiting request is resumed: it finds every local of its generators
\* (parameters, consts, the position in its loops) as it left it
Resume(f) ==
  /\ self' = f.rid
  /\ pc' = f.pc
  /\ assistant' = f.assistant
  /\ thread' = f.thread
  /\ ops' = f.ops
  /\ outerLog' = f.outerLog
  /\ out' = f.out
  /\ origin' = f.origin
  /\ cur' = f.cur
  /\ dispatches' = f.dispatches
  /\ tasks' = f.tasks
  /\ lookups' = f.lookups
  /\ completions' = f.completions
  /\ toolOutputs' = f.toolOutputs
  /\ resumedLog' = f.resumedLog
  /\ errors' = f.errors
  /\ failures' = f.failures
  /\ outerEnded' = f.outerEnded
  /\ thrown' = f.thrown

\* the running request waits at an await (every action above ends at one)
\* and the event loop resumes another request whose awaited answer is there;
\* a generator that has returned or thrown is not resumed
Switch ==
  /\ \E i \in 1..Len(suspended) :
       /\ suspended[i].pc \notin { "done", "failed" }
       /\ Resume(suspended[i])
       /\ suspended' = [suspended EXCEPT ![i] = Frame]
  /\ UNCHANGED <<ASSISTANT_ID, threadsCreated>>

\* the host has accepted two requests; neither has taken a step
ConcInit ==
  /\ self = 1
  /\ suspended = <<NewRequest(2)>>
  /\ threadsCreated = 0
  /\ ASSISTANT_ID \in { "", "asst_fixed" }
  /\ RequestStarts

ConcNext == Next \/ Switch

ConcSpec == ConcInit /\ [][ConcNext]_vars

(* ---------------------------------------------------------------------- *)
(* Vocabulary of the properties                                             *)
(* ---------------------------------------------------------------------- *)
IsRequiresAction(chunk) == chunk.event = "thread.run.requires_action"

\* the concatenation of a sequence of strings
RECURSIVE Concat(_)
Concat(fragments) ==
  IF fragments = <<>> THEN "" ELSE fragments[1] \o Concat(Tail(fragments))

\* the text a chunk stands for: the text value of the first content block
\* of a delta chunk, the empty string when there is none
DeltaText(chunk) ==
  IF /\ chunk.event = "thread.message.delta"
     /\ IsSome(chunk.data.delta)
     /\ IsSome(Get(chunk.data.delta).content)
     /\ Len(Get(Get(chunk.data.delta).content)) >= 1
     /\ IsSome(Get(Get(chunk.data.delta).content)[1].text)
     /\ IsSome(Get(Get(Get(chunk.data.delta).content)[1].text).value)
  THEN Get(Get(Get(Get(chunk.data.delta).content)[1].text).value)
  ELSE ""

RECURSIVE ExpectedText(_)
ExpectedText(log) ==
  IF log = <<>> THEN "" ELSE DeltaText(log[1]) \o ExpectedText(Tail(log))

\* the chunk and the tool calls the k-th dispatch was started for
DispatchChunk(k) == outerLog[dispatches[k].at]
DispatchCalls(k) == DispatchChunk(k).data.required_action.submit_tool_outputs.tool_calls

\* the k-th dispatch has left its tool computations and its submission behind
PastSubmission(k) == k < Len(dispatches) \/ pc \notin { "tools", "submit" }

\* the submit operations among the client operations, in invocation order
SubmitOps == SelectSeq(ops, LAMBDA o : o.op = "submitToolOutputsStream")

\* the requests the dispatches submitted, in dispatch order
RECURSIVE SubmittedUpTo(_)
SubmittedUpTo(k) ==
  IF k = 0 THEN <<>>
  ELSE SubmittedUpTo(k - 1) \o dispatches[k].submitted

\* argument strings that are valid JSON
WellFormedArgs == { ArgsAAPL, ArgsCity }

IsStockPriceCall(call) == call.function.name = "getStockPrice"
HasMalformedCall(k) ==
  \E i \in 1..Len(DispatchCalls(k)) :
    /\ IsStockPriceCall(DispatchCalls(k)[i])
    /\ DispatchCalls(k)[i].function.arguments \notin WellFormedArgs

\* the getStockPrice invocations / results for one tool call
LookupsFor(id) == { n \in 1..Len(lookups) : lookups[n].id = id }
CompletionsFor(id) == { n \in 1..Len(completions) : completions[n].id = id }
ResultFor(id) == completions[CHOOSE n \in CompletionsFor(id) : TRUE].result

(* ---------------------------------------------------------------------- *)
(* Properties                                                               *)
(* ---------------------------------------------------------------------- *)
NoRequiresActionDelivered ==
  \A i \in 1..Len(outerLog) : ~IsRequiresAction(outerLog[i])

\* C1: as long as the run stream has delivered no requires-action chunk and
\* nothing has failed, the fragments produced so far, concatenated, are the
\* concatenation of the text values of the delivered delta chunks in
\* delivery order; and the produced sequence has ended exactly when the run
\* stream has ended.
C1_TextOnlyStream ==
  (NoRequiresActionDelivered /\ thrown = None) =>
    /\ Concat(out) = ExpectedText(outerLog)
    /\ outerEnded <=> pc = "done"

C1_Witness ==
  /\ pc = "done"
  /\ NoRequiresActionDelivered
  /\ thrown = None
  /\ out = <<"a", "", "b">>

\* C2: the fragments of out are ordered by the position of the outer chunk
\* they come from (so the fragments of one dispatch are contiguous, after
\* those of earlier outer chunks and before those of later ones); a fragment
\* comes from a resumed stream exactly when its outer chunk is a
\* requires-action chunk; and while a dispatch is in progress the last
\* delivered outer chunk is still the one that started it.
C2_DelegatedFragmentsContiguous ==
  /\ Len(origin) = Len(out)
  /\ \A i, j \in 1..Len(origin) : i < j => origin[i].at <= origin[j].at
  /\ \A i \in 1..Len(origin) :
       origin[i].stream = "resumed" <=> IsRequiresAction(outerLog[origin[i].at])
  /\ pc \in { "tools", "submit", "resumed" } =>
       /\ dispatches # <<>>
       /\ CurrentAt = Len(outerLog)
       /\ IsRequiresAction(outerLog[CurrentAt])

C2_Witness ==
  /\ out = <<"a", "c", "b">>
  /\ origin = <<[stream |-> "outer", at |-> 1], [stream |-> "resumed", at |-> 2],
               [stream |-> "outer", at |-> 3]>>

SubmitOncePerDispatch == SubmitOps = SubmittedUpTo(Len(dispatches))

SingleStockPriceCall(k) ==
  /\ Len(DispatchCalls(k)) = 1
  /\ IsStockPriceCall(DispatchCalls(k)[1])
  /\ DispatchCalls(k)[1].function.arguments \in WellFormedArgs

\* C4: a dispatch started for exactly one getStockPrice call with well-formed
\* arguments invokes getStockPrice once and the resume operation once, for
\* the thread id and run id of its chunk, with the single tool output that
\* pairs the id of the tool call with the string getStockPrice returned.
C4_SingleStockPriceSubmission ==
  /\ SubmitOncePerDispatch
  /\ \A k \in 1..Len(dispatches) :
       (SingleStockPriceCall(k) /\ PastSubmission(k)) =>
         LET call == DispatchCalls(k)[1] IN
           /\ Cardinality(LookupsFor(call.id)) = 1
           /\ Cardinality(CompletionsFor(call.id)) = 1
           /\ dispatches[k].submitted =
                Some([op |-> "submitToolOutputsStream",
                      thread_id |-> DispatchChunk(k).data.thread_id,
                      run_id |-> DispatchChunk(k).data.id,
                      tool_outputs |->
                        <<[tool_call_id |-> call.id,
                           output |-> ResultFor(call.id)]>>])

C4_Witness ==
  /\ pc = "done"
  /\ Len(dispatches) = 1
  /\ SingleStockPriceCall(1)
  /\ Len(SubmitOps) = 1
  /\ SubmitOps[1].tool_outputs = <<[tool_call_id |-> "call_1", output |-> "902.25"]>>

\* C5: in every submitted request the entry at the position of a tool call
\* whose name is not getStockPrice is that tool call itself; getStockPrice
\* is never invoked for such a call; and a dispatch logs a tool-computation
\* error only when one of its getStockPrice calls has malformed arguments.
C5_UnknownToolPassThrough ==
  /\ \A k \in 1..Len(dispatches) :
       \A i \in 1..Len(DispatchCalls(k)) :
         ~IsStockPriceCall(DispatchCalls(k)[i]) =>
           /\ LookupsFor(DispatchCalls(k)[i].id) = {}
           /\ IsSome(dispatches[k].submitted) =>
                /\ i <= Len(Get(dispatches[k].submitted).tool_outputs)
                /\ Get(dispatches[k].submitted).tool_outputs[i] = DispatchCalls(k)[i]
  /\ \A e \in 1..Len(errors) :
       errors[e].message = "Error processing required action:" =>
         \E k \in 1..Len(dispatches) :
           dispatches[k].at = errors[e].at /\ HasMalformedCall(k)

C5_Witness ==
  /\ pc = "done"
  /\ errors = <<>>
  /\ Len(dispatches) = 1
  /\ Len(DispatchCalls(1)) = 2
  /\ IsStockPriceCall(DispatchCalls(1)[1])
  /\ ~IsStockPriceCall(DispatchCalls(1)[2])
  /\ IsSome(dispatches[1].submitted)
  /\ Get(dispatches[1].submitted).tool_outputs[2] = DispatchCalls(1)[2]

\* C6: a submitted request has one entry per tool call of its chunk, in the
\* order of the call list, and at the time of the submission (and ever
\* after) every getStockPrice call of the chunk has completed: its entry
\* carries the result of its own completion.
C6_JoinBeforeSubmitInOrder ==
  \A k \in 1..Len(dispatches) :
    IsSome(dispatches[k].submitted) =>
      LET calls == DispatchCalls(k)
          outputs == Get(dispatches[k].submitted).tool_outputs
      IN /\ Len(outputs) = Len(calls)
         /\ \A i \in 1..Len(calls) :
              IF IsStockPriceCall(calls[i])
              THEN /\ CompletionsFor(calls[i].id) # {}
                   /\ outputs[i] = [tool_call_id |-> calls[i].id,
                                    output |-> ResultFor(calls[i].id)]
              ELSE outputs[i] = calls[i]

\* the second call completed first, the outputs are in call order
C6_Witness ==
  /\ Len(dispatches) = 1
  /\ IsSome(dispatches[1].submitted)
  /\ Len(completions) = 2
  /\ completions[1].id = "call_2"
  /\ completions[2].id = "call_1"
  /\ Get(dispatches[1].submitted).tool_outputs[1].tool_call_id = "call_1"
  /\ Get(dispatches[1].submitted).tool_outputs[2].tool_call_id = "call_2"

\* C7: a dispatch with a getStockPrice call whose arguments are not valid
\* JSON never invokes the resume operation; once it is over, exactly one
\* error was logged for it (by the catch of handleRequiresAction), and right
\* afterwards the request is back in the loop of processQuery (or has left
\* it because the run stream ended or rejected): nothing was thrown to the
\* consumer by the dispatch.
C7_MalformedArgumentsSwallowed ==
  /\ SubmitOncePerDispatch
  /\ \A k \in 1..Len(dispatches) :
       HasMalformedCall(k) =>
         /\ dispatches[k].submitted = None
         /\ PastSubmission(k) =>
              /\ Cardinality({ e \in 1..Len(errors) : errors[e].at = dispatches[k].at }) = 1
              /\ \A e \in 1..Len(errors) :
                   errors[e].at = dispatches[k].at =>
                     errors[e].message = "Error processing required action:"
              /\ (k = Len(dispatches) /\ Len(outerLog) = dispatches[k].at) =>
                   \/ pc \in { "stream", "done" } /\ thrown = None
                   \/ pc = "failed" /\ thrown = Some("run stream")

\* a malformed call next to a well-formed one
C7_Witness ==
  /\ pc = "done"
  /\ Len(dispatches) = 1
  /\ Len(DispatchCalls(1)) = 2
  /\ DispatchCalls(1)[1].function.arguments = ArgsAAPL
  /\ DispatchCalls(1)[2].function.arguments = ArgsMalformed
  /\ Len(errors) = 1
  /\ SubmitOps = <<>>

SetupOps ==
  <<"initAzureOpenAI", "assistants", "threads.create", "messages.create",
    "runs.stream">>

\* C8: when one of the five setup operations has rejected, the request has
\* failed with that error thrown to the consumer, no fragment was produced,
\* nothing was logged as a caught error, and the rejected operation is the
\* last client operation invoked.
C8_SetupFailurePropagates ==
  \A k \in 1..Len(SetupOps) :
    (failures # <<>> /\ failures[1] = SetupOps[k]) =>
      /\ pc = "failed"
      /\ thrown = Some(SetupOps[k])
      /\ out = <<>>
      /\ outerLog = <<>>
      /\ errors = <<>>
      /\ Len(ops) = k

C8_Witness ==
  /\ failures = <<"threads.create">>
  /\ pc = "failed"
  /\ Len(ops) = 3

\* the state of the informal per-request state machine the task is in; a
\* request that threw to its consumer has left the machine
Phase ==
  IF pc \in { "init", "assistant", "thread", "message", "run" } THEN "STARTED"
  ELSE IF pc = "stream" THEN "STREAMING"
  ELSE IF pc = "requires_action" THEN "REQUIRES_ACTION"
  ELSE IF pc \in { "tools", "submit", "resumed" } THEN "DISPATCHING"
  ELSE IF pc = "done" THEN "DONE"
  ELSE "FAILED"

PhaseEdges ==
  { <<"STARTED", "STARTED">>, <<"STARTED", "STREAMING">>,
    <<"STREAMING", "STREAMING">>, <<"STREAMING", "REQUIRES_ACTION">>,
    <<"REQUIRES_ACTION", "DISPATCHING">>, <<"DISPATCHING", "DISPATCHING">>,
    <<"DISPATCHING", "STREAMING">>, <<"STREAMING", "DONE">>,
    <<"STARTED", "FAILED">>, <<"STREAMING", "FAILED">> }

C9_Step ==
  /\ <<Phase, Phase'>> \in PhaseEdges
  /\ Phase' = "REQUIRES_ACTION" =>
       /\ Len(outerLog') = Len(outerLog) + 1
       /\ IsRequiresAction(outerLog'[Len(outerLog')])
  /\ Phase = "REQUIRES_ACTION" =>
       dispatches' = Append(dispatches, [at |-> Len(outerLog), submitted |-> None])
  /\ Phase # "REQUIRES_ACTION" => Len(dispatches') = Len(dispatches)

\* C9: every step of a request is a transition of
\* STARTED -> STREAMING -> (REQUIRES_ACTION -> DISPATCHING -> STREAMING)* -> DONE
\* (or the exit of a thrown error from STARTED or STREAMING): REQUIRES_ACTION
\* is entered only by the delivery of a requires-action chunk of the run
\* stream, it is left only into one new dispatch for that chunk, no dispatch
\* starts otherwise, and no step at all (no fragment, no client operation)
\* leaves DONE.
C9_RequestStateMachine == [][C9_Step]_vars

\* two rounds of the cycle, then DONE
C9_Witness ==
  /\ pc = "done"
  /\ Len(dispatches) = 2
  /\ Len(SubmitOps) = 2
  /\ Len(out) >= 1

\* C10: under fair scheduling of the request task the produced sequence
\* ends: the request reaches DONE, whether or not dispatches failed on the
\* way, unless a setup step or the run stream threw to the consumer.
C10_Terminates == <>(pc = "done" \/ (pc = "failed" /\ IsSome(thrown)))

\* DONE after a failed dispatch
C10_Witness ==
  /\ pc = "done"
  /\ errors # <<>>
  /\ failures # <<>>

\* the setup operation processQuery invokes at position k, given the
\* configured assistant identifier and what the earlier operations returned
ExpectedSetupOp(k) ==
  CASE k = 1 -> [op |-> "initAzureOpenAI"]
    [] k = 2 -> IF ASSISTANT_ID # ""
                THEN [op |-> "assistants.retrieve", id |-> ASSISTANT_ID]
                ELSE [op |-> "assistants.create", name |-> "Finance Assistant"]
    [] k = 3 -> [op |-> "threads.create"]
    [] k = 4 -> [op |-> "messages.create", thread_id |-> Get(thread),
                 role |-> "user"]
    [] k = 5 -> [op |-> "runs.stream", thread_id |-> Get(thread),
                 assistant_id |-> Get(assistant)]

\* the number of setup operations invoked when the request is at pc
SetupOpsInvokedAt(p) ==
  CASE p = "init" -> 0
    [] p = "assistant" -> 1
    [] p = "thread" -> 2
    [] p = "message" -> 3
    [] p = "run" -> 4
    [] OTHER -> 5

IsSetupFailure(error) == \E k \in 1..Len(SetupOps) : SetupOps[k] = error

\* C11: the client operations invoked so far start with the setup
\* operations in the order acquire client, resolve assistant, create thread,
\* create message on the created thread, start the run on that thread with
\* the id of the resolved assistant, each once: as many of them as the
\* position of the request tells, and after a failed one no further
\* operation; the assistant is retrieved (by the configured identifier) when
\* one is configured and created otherwise, and then the run is started with
\* the identifier the chosen operation returned; every operation after the
\* five is a resume operation; and each rejected operation or stream is
\* recorded once (nothing is attempted a second time).
C11_SetupOnceInOrder ==
  LET invoked == IF pc = "failed" /\ IsSetupFailure(Get(thrown))
                 THEN CHOOSE k \in 1..Len(SetupOps) : SetupOps[k] = Get(thrown)
                 ELSE SetupOpsInvokedAt(pc)
  IN /\ Len(ops) >= invoked
     /\ \A k \in 1..invoked : ops[k] = ExpectedSetupOp(k)
     /\ \A k \in (invoked + 1)..Len(ops) : ops[k].op = "submitToolOutputsStream"
     /\ invoked < 5 => Len(ops) = invoked
     /\ invoked >= 2 =>
          /\ ASSISTANT_ID # "" <=> ops[2].op = "assistants.retrieve"
          /\ ASSISTANT_ID = "" <=> ops[2].op = "assistants.create"
     /\ IsSome(assistant) =>
          assistant = Some(IF ASSISTANT_ID # "" THEN ASSISTANT_ID ELSE NewAssistantId)
     /\ \A i, j \in 1..Len(failures) :
          (i # j /\ failures[i] = failures[j]) =>
            failures[i] \in { "submitToolOutputsStream", "resumed stream" }
     /\ Cardinality({ i \in 1..Len(failures) : IsSetupFailure(failures[i]) }) <= 1

\* a configured assistant: retrieved, the run started with its id, and the
\* request went on to a dispatch and to its end
C11_Witness ==
  /\ pc = "done"
  /\ ASSISTANT_ID = "asst_fixed"
  /\ Len(ops) = 6
  /\ ops[2] = [op |-> "assistants.retrieve", id |-> "asst_fixed"]
  /\ ops[5] = [op |-> "runs.stream", thread_id |-> "thread_1",
               assistant_id |-> "asst_fixed"]
  /\ ops[6].op = "submitToolOutputsStream"

\* the ids of the tool calls the chunks of the run stream carry
OuterCallIds ==
  { outerLog[p].data.required_action.submit_tool_outputs.tool_calls[i].id :
      <<p, i>> \in { <<p, i>> \in (1..Len(outerLog)) \X (1..MaxLoad) :
                       /\ IsRequiresAction(outerLog[p])
                       /\ i <= Len(outerLog[p].data.required_action
                                     .submit_tool_outputs.tool_calls) } }

\* the requires-action chunks among the chunks of the run stream
OuterRequiresActionAt == { p \in 1..Len(outerLog) : IsRequiresAction(outerLog[p]) }

ResumedGrows == Len(resumedLog') = Len(resumedLog) + 1
ResumedLast == resumedLog'[Len(resumedLog')].chunk

C13_Step ==
  /\ (ResumedGrows /\ IsRequiresAction(ResumedLast)) =>
       UNCHANGED <<pc, setupVars, ops, streamVars, cur, dispatches, tasks,
                   lookups, completions, toolOutputs, errors, failures, thrown>>
  /\ (ResumedGrows /\ out' # out) =>
       /\ ResumedLast.event = "thread.message.delta"
       /\ Len(out') = Len(out) + 1
  /\ (pc = "resumed" /\ out' # out) => ResumedGrows
  /\ \A k \in 1..Len(dispatches') : dispatches'[k].at \in OuterRequiresActionAt'
  /\ Len(SubmitOps') <= Cardinality(OuterRequiresActionAt')
  /\ \A n \in 1..Len(lookups') : lookups'[n].id \in OuterCallIds'

\* C13: the step that receives a requires-action chunk on a resumed stream
\* changes nothing but the record of what that stream delivered (no
\* dispatch, no getStockPrice call, no client operation, no fragment, no
\* error); a step of a resumed stream that produces a fragment produces one,
\* for a thread.message.delta chunk; and every dispatch, resume operation
\* and getStockPrice call is for a requires-action chunk of the run stream.
C13_ResumedRequiresActionIgnored == [][C13_Step]_vars

\* the resumed stream of the only dispatch delivered a requires-action chunk
\* and then a text delta: one dispatch, one resume operation, one
\* getStockPrice call, one fragment
C13_Witness ==
  /\ pc = "done"
  /\ Len(resumedLog) = 2
  /\ IsRequiresAction(resumedLog[1].chunk)
  /\ resumedLog[2].chunk = TextChunk("c")
  /\ out = <<"c">>
  /\ Len(dispatches) = 1
  /\ Len(SubmitOps) = 1
  /\ Len(lookups) = 1

OuterGrows == Len(outerLog') = Len(outerLog) + 1
OuterLast == outerLog'[Len(outerLog')]

\* a thread.message.delta chunk that carries a delta payload
CarriesDelta(chunk) ==
  chunk.event = "thread.message.delta" /\ IsSome(chunk.data.delta)

\* the step yields exactly the fragment the chunk stands for and nothing
\* else happens to the request
YieldsItsText(chunk) ==
  /\ out' = Append(out, DeltaText(chunk))
  /\ UNCHANGED <<pc, setupVars, ops, cur, dispatches, tasks, lookups,
                 completions, toolOutputs, errors, failures, outerEnded, thrown>>

C14_Step ==
  /\ (OuterGrows /\ ~IsRequiresAction(OuterLast)) =>
       IF CarriesDelta(OuterLast)
       THEN YieldsItsText(OuterLast) /\ resumedLog' = resumedLog
       ELSE UNCHANGED <<pc, setupVars, ops, out, origin, outerEnded,
                        dispatchVars, errors, failures, thrown>>
  /\ ResumedGrows =>
       IF CarriesDelta(ResumedLast)
       THEN YieldsItsText(ResumedLast) /\ outerLog' = outerLog
       ELSE UNCHANGED <<pc, setupVars, ops, streamVars, cur, dispatches, tasks,
                        lookups, completions, toolOutputs, errors, failures,
                        thrown>>

\* C14 as stated: the step that receives a chunk from the run stream or from
\* a resumed stream yields exactly one fragment when the chunk is a
\* thread.message.delta chunk with a delta payload (the text value of its
\* first content block, the empty string when there is none), and otherwise
\* yields nothing and changes nothing but the record of what was delivered
\* (a requires-action chunk of the run stream, which starts a dispatch, set
\* aside).
C14_Original_EveryDeltaYieldsOneFragment == [][C14_Step]_vars

\* a thread.message.delta chunk whose delta payload carries a content list
CarriesContent(chunk) ==
  CarriesDelta(chunk) /\ IsSome(Get(chunk.data.delta).content)

\* a dispatch failure is logged by this step
ErrorLogged == Len(errors') = Len(errors) + 1

C15_Step ==
  /\ ErrorLogged =>
       /\ pc \in { "tools", "submit", "resumed" }
       /\ pc' = "stream"
       /\ out' = out
       /\ thrown' = None
       /\ outerEnded' = FALSE
       /\ errors'[Len(errors')].at = Len(outerLog')
  /\ Len(out') >= Len(out) /\ SubSeq(out', 1, Len(out)) = out
  /\ (errors # <<>> /\ OuterGrows) =>
       /\ pc = "stream"
       /\ CarriesContent(OuterLast) =>
            /\ out' = Append(out, DeltaText(OuterLast))
            /\ pc' = "stream"
            /\ thrown' = None
       /\ IsRequiresAction(OuterLast) =>
            /\ pc' = "requires_action"
            /\ cur' = Some(OuterLast.data)
  /\ (errors # <<>> /\ pc = "requires_action") =>
       /\ dispatches' = Append(dispatches, [at |-> Len(outerLog), submitted |-> None])
       /\ dispatches'[Len(dispatches')].at > errors[Len(errors)].at

\* C15: the step that logs a failure of a dispatch (of its tool computation,
\* its submission or its resumed stream) leaves the fragments produced so
\* far in place, throws nothing and returns the request to the loop of
\* processQuery with the run stream still open; no step ever removes or
\* changes a produced fragment; and after such a failure a text delta of the
\* run stream (a delta payload with a content list) still yields its
\* fragment and a requires-action chunk of the run stream still starts a
\* dispatch of its own.
C15_DispatchFailureIsLocal == [][C15_Step]_vars

\* the first dispatch failed in its tool computation; the text delta that
\* followed was yielded and the requires-action chunk after it was
\* dispatched and submitted
C15_Witness ==
  /\ Len(dispatches) = 2
  /\ Len(errors) = 1
  /\ errors[1].at = 1
  /\ errors[1].message = "Error processing required action:"
  /\ out = <<"a">>
  /\ origin = <<[stream |-> "outer", at |-> 2]>>
  /\ dispatches[2].at = 3
  /\ IsSome(dispatches[2].submitted)

\* the stream rejects in this step
StreamRejects(name) ==
  /\ Len(failures') = Len(failures) + 1
  /\ failures'[Len(failures')] = name

\* the chunk received in this step makes delta.content[0] throw
ExtractionFails(chunk) == CarriesDelta(chunk) /\ ~CarriesContent(chunk)

C16_Step ==
  /\ (StreamRejects("run stream") \/ (OuterGrows /\ ExtractionFails(OuterLast))) =>
       /\ pc = "stream"
       /\ pc' = "failed"
       /\ thrown' = Some(IF OuterGrows THEN "TypeError" ELSE "run stream")
       /\ out' = out
       /\ errors' = errors
  /\ (StreamRejects("resumed stream")
        \/ (ResumedGrows /\ ExtractionFails(ResumedLast))) =>
       /\ pc = "resumed"
       /\ pc' = "stream"
       /\ thrown' = None
       /\ out' = out
       /\ ErrorLogged
       /\ errors'[Len(errors')].message = "Error submitting tool outputs:"
  /\ thrown' # thrown =>
       /\ thrown = None
       /\ pc \in { "init", "assistant", "thread", "message", "run", "stream" }
       /\ pc' = "failed"
  /\ pc # "failed"

\* C16: a rejection of the run stream, or a delta of the run stream whose
\* extraction throws, puts the request in its failed state with the error
\* thrown to the consumer, the fragments produced so far unchanged and
\* nothing logged by a catch block; the same on a resumed stream is logged
\* by the catch of submitToolOutputs, throws nothing and returns the request
\* to the loop of processQuery; an error reaches the consumer only from the
\* setup steps or the loop of processQuery, never from inside a dispatch,
\* and after it the request takes no further step.
C16_FailureHandlingAsymmetric == [][C16_Step]_vars

\* a resumed stream rejected after one fragment (logged, not thrown), the
\* loop went on, then the run stream rejected (thrown)
C16_Witness ==
  /\ pc = "failed"
  /\ thrown = Some("run stream")
  /\ failures = <<"resumed stream", "run stream">>
  /\ Len(errors) = 1
  /\ errors[1].message = "Error submitting tool outputs:"
  /\ out = <<"c", "a">>

\* the requests of the host, running or waiting, with their locals
Frames == <<Frame>> \o suspended
FrameOf(rid) == Frames[CHOOSE i \in 1..Len(Frames) : Frames[i].rid = rid]

\* the fragment a chunk yields, if it yields one
ChunkTexts(chunk) ==
  IF CarriesContent(chunk) THEN <<DeltaText(chunk)>> ELSE <<>>

\* the fragments of the resumed stream opened for the outer chunk at p
RECURSIVE ResumedTextsAt(_, _)
ResumedTextsAt(rlog, p) ==
  IF rlog = <<>> THEN <<>>
  ELSE (IF rlog[1].at = p THEN ChunkTexts(rlog[1].chunk) ELSE <<>>)
       \o ResumedTextsAt(Tail(rlog), p)

\* the fragments a request produces, as a function of what its run stream
\* and its resumed streams delivered, from the outer chunk at p on
RECURSIVE FragmentsFrom(_, _, _)
FragmentsFrom(olog, rlog, p) ==
  IF p > Len(olog) THEN <<>>
  ELSE (IF IsRequiresAction(olog[p]) THEN ResumedTextsAt(rlog, p)
        ELSE ChunkTexts(olog[p]))
       \o FragmentsFrom(olog, rlog, p + 1)

OpsNamed(f, name) == { k \in 1..Len(f.ops) : f.ops[k].op = name }

\* the request of frame f works on the thread it created and on the runs
\* its own requires-action chunks name
OwnThreadAndRun(f) ==
  /\ Cardinality(OpsNamed(f, "threads.create")) <= 1
  /\ Cardinality(OpsNamed(f, "runs.stream")) <= 1
  /\ IsSome(f.thread) => Cardinality(OpsNamed(f, "threads.create")) = 1
  /\ f.pc \in { "stream", "requires_action", "tools", "submit", "resumed", "done" } =>
       Cardinality(OpsNamed(f, "runs.stream")) = 1
  /\ \A k \in OpsNamed(f, "messages.create") \cup OpsNamed(f, "runs.stream") :
       Some(f.ops[k].thread_id) = f.thread
  /\ \A k \in OpsNamed(f, "submitToolOutputsStream") :
       \E p \in 1..Len(f.outerLog) :
         /\ IsRequiresAction(f.outerLog[p])
         /\ f.ops[k].thread_id = f.outerLog[p].data.thread_id
         /\ f.ops[k].run_id = f.outerLog[p].data.id
  /\ IsSome(f.cur) =>
       \E p \in 1..Len(f.outerLog) :
         IsRequiresAction(f.outerLog[p]) /\ f.cur = Some(f.outerLog[p].data)

\* nothing request f uses belongs to request g
Apart(f, g) ==
  /\ IsSome(f.thread) => f.thread # g.thread
  /\ \A k \in OpsNamed(f, "submitToolOutputsStream") :
       /\ Some(f.ops[k].thread_id) # g.thread
       /\ \A p \in 1..Len(g.outerLog) :
            IsRequiresAction(g.outerLog[p]) => f.ops[k].run_id # g.outerLog[p].data.id

====
